---- MODULE Spec2Model ----
(***************************************************************************)
(* Model of water.py: the Ocean and Pool scene objects, which wire a       *)
(* height-field generator (Tessendorf / Ripples) to a Surface mesh and a   *)
(* Caustics engine.  Tessendorf, Ripples, Surface and Caustics live in     *)
(* heightfields.py, surface.py and caustics.py; the parts of them the      *)
(* Ocean and Pool rely on are modelled from the design document.           *)
(***************************************************************************)
EXTENDS Integers, Sequences, FiniteSets

\* ---------------------------------------------------------------- bounds
MaxGens == 2        \* generators constructed over one behaviour
MaxTime == 1        \* accumulated animation time of one generator
MaxTaps == 2        \* taps issued to the pool over one behaviour
MaxAdvances == 2    \* advances of the ripple generator over one behaviour
GridSize == 2       \* cells along one side of the pool's ripple grid

\* ------------------------------------------------------ program constants
DefaultTileSize == 128
DefaultDepth == 30
DefaultPeriod == 10
DefaultPhotonScale == 4
DefaultPhotonIntensity == 2

\* Wave height is a float in the program (default 3.125e-5); the model
\* counts it in units of the default.
DefaultWaveHeight == 1
DefaultWind == <<64, 128>>

\* ------------------------------------------------------------ input sets
Winds == {DefaultWind, <<1, 0>>, <<0, 0>>}
WaveHeights == {DefaultWaveHeight, 2}
Depths == {DefaultDepth, 10}
PhotonValues == {DefaultPhotonScale, DefaultPhotonIntensity}
Dts == {1, 2}

\* The shader sources on disk when a program is compiled from them: as at
\* construction, or edited since.
ShaderSources == {"original", "edited"}

\* A reference that names no object (an attribute that was deleted, or None)
NoObject == 0

VARIABLES
    \* Ocean
    wind, waveHeight, oceanDepth, period, tileSize, length,
    drawSeaSurface, drawSeaFloor, enableCaustics,
    photonIntensity, photonScale,
    surfaceShader, groundShader,
    heightfield,      \* reference to Ocean's generator, NoObject once deleted
    surface,          \* the water Surface: its generator, depth and shader
    caustics,         \* the Caustics engine: depth, tuning values, texture
    ground,           \* the sea-bed Surface
    heap,             \* generator objects by reference
    nextId,           \* reference the next constructed generator gets
    frameLog,         \* the calls the last operation made, when it was a draw
    raised,           \* the exception the last Ocean call raised, if any
    \* Pool
    poolDepth, poolSurface, ripples, issued, poolLog, poolLastOp

oceanVars == <<wind, waveHeight, oceanDepth, period, tileSize, length,
               drawSeaSurface, drawSeaFloor, enableCaustics,
               photonIntensity, photonScale, surfaceShader, groundShader,
               heightfield, surface, caustics, ground, heap, nextId,
               frameLog, raised>>

poolVars == <<poolDepth, poolSurface, ripples, issued, poolLog, poolLastOp>>

vars == <<oceanVars, poolVars>>

\* ---------------------------------------------------------------- helpers
RECURSIVE IsPowerOfTwo(_)
IsPowerOfTwo(n) ==
    IF n < 1 THEN FALSE
    ELSE IF n = 1 THEN TRUE
    ELSE IF n % 2 = 1 THEN FALSE
    ELSE IsPowerOfTwo(n \div 2)

\* Construction-time validation of the spectrum generator.
TessendorfValid(ts, w, len) ==
    /\ IsPowerOfTwo(ts)
    /\ w # <<0, 0>>
    /\ len > 0

\* A freshly constructed spectrum generator: its construction parameters
\* and a time accumulator that starts at zero.
Tessendorf(ts, wh, w, len, per) ==
    [tileSize |-> ts, waveHeight |-> wh, wind |-> w, length |-> len,
     period |-> per, time |-> 0]

\* The height grid a generator produces is determined by its construction
\* parameters (fixed seed) and its current time.
HeightGrid(g) ==
    [tileSize |-> g.tileSize, waveHeight |-> g.waveHeight, wind |-> g.wind,
     length |-> g.length, period |-> g.period, time |-> g.time]

\* advance(dt) of the generator
Advance(g, dt) == [g EXCEPT !.time = @ + dt]

\* Reference counting: an object no reference names any more is freed.
\* The heap maps the references of the live objects to the objects.
Collect(h, live) == [i \in DOMAIN h \cap live |-> h[i]]

\* The heap with a newly constructed object at a fresh reference.
Allocate(h, ref, obj) ==
    [i \in DOMAIN h \cup {ref} |-> IF i = ref THEN obj ELSE h[i]]

\* The caustic texture before its first update.
BlankTexture == <<>>

NoOutcome == "ok"

Op(name, arg) == [op |-> name, arg |-> arg]

\* ------------------------------------------------------------------- Init
OceanInit ==
    /\ wind = DefaultWind
    /\ waveHeight = DefaultWaveHeight
    /\ oceanDepth = DefaultDepth
    /\ period = DefaultPeriod
    /\ drawSeaSurface = TRUE
    /\ drawSeaFloor = TRUE
    /\ enableCaustics = TRUE
    /\ photonIntensity = DefaultPhotonIntensity
    /\ photonScale = DefaultPhotonScale
    /\ tileSize = DefaultTileSize
    /\ length = DefaultTileSize
    /\ surfaceShader = "original"
    /\ groundShader = "original"
    /\ heightfield = 1
    /\ heap = [i \in {1} |->
                 Tessendorf(DefaultTileSize, DefaultWaveHeight,
                            DefaultWind, DefaultTileSize, DefaultPeriod)]
    /\ nextId = 2
    /\ surface = [heightfield |-> 1, depth |-> DefaultDepth, shader |-> "original"]
    /\ caustics = [depth |-> DefaultDepth,
                   photonScale |-> DefaultPhotonScale,
                   photonIntensity |-> DefaultPhotonIntensity,
                   texture |-> BlankTexture]
    /\ ground = [shader |-> "original"]
    /\ frameLog = <<>>
    /\ raised = NoOutcome


\* ------------------------------------------- collaborators (surface.py,
\* caustics.py): the methods Ocean and Pool call

SurfaceSetDepth(s, d) == [s EXCEPT !.depth = d]

SurfaceSetHeightfield(s, hf) == [s EXCEPT !.heightfield = hf]

SurfaceSetShader(s, sh) == [s EXCEPT !.shader = sh]

CausticsSetDepth(c, d) == [c EXCEPT !.depth = d]

\* Surface.draw(dt): the mesh advances its generator and reads the samples.
SurfaceDraw(h, s, dt) ==
    IF s.heightfield = NoObject THEN h
    ELSE [h EXCEPT ![s.heightfield] = Advance(@, dt)]

\* Caustics.update(dt): the texture is recomputed from the height samples
\* the surface currently holds.
CausticsUpdate(c, h, s) ==
    [c EXCEPT !.texture = <<HeightGrid(h[s.heightfield])>>]

\* Faulty variants of DrawSteps: the caustics updated ahead of the surface
\* draw, and the caustics update left out.
DrawStepsCausticsFirst(seaSurface, seaFloor, withCaustics) ==
    (IF seaFloor /\ withCaustics THEN <<"caustics.update">> ELSE <<>>)
    \o (IF seaSurface THEN <<"surface.draw">> ELSE <<>>)
    \o (IF seaFloor THEN <<"ground.draw">> ELSE <<>>)

DrawStepsNoCaustics(seaSurface, seaFloor, withCaustics) ==
    (IF seaSurface THEN <<"surface.draw">> ELSE <<>>)
    \o (IF seaFloor THEN <<"ground.draw">> ELSE <<>>)

\* ---------------------------------------------------------- Ocean.draw
\* The calls one Ocean.draw(dt) makes, in order.
DrawSteps(seaSurface, seaFloor, withCaustics) ==
    (IF seaSurface THEN <<"surface.draw">> ELSE <<>>)
    \o (IF seaFloor
        THEN (IF withCaustics THEN <<"caustics.update">> ELSE <<>>)
             \o <<"ground.draw">>
        ELSE <<>>)

\* The effect of one call of the frame on the generator heap and the
\* caustics engine.
DrawStep(st, step, dt) ==
    IF step = "surface.draw"
    THEN [st EXCEPT !.heap = SurfaceDraw(st.heap, surface, dt)]
    ELSE IF step = "caustics.update"
    THEN [st EXCEPT !.caustics = CausticsUpdate(st.caustics, st.heap, surface)]
    ELSE st

RECURSIVE RunSteps(_, _, _)
RunSteps(st, steps, dt) ==
    IF steps = <<>> THEN st
    ELSE RunSteps(DrawStep(st, Head(steps), dt), Tail(steps), dt)

Draw(dt) ==
    LET steps == DrawSteps(drawSeaSurface, drawSeaFloor, enableCaustics)
        st == RunSteps([heap |-> heap, caustics |-> caustics], steps, dt)
    IN  /\ (drawSeaSurface /\ surface.heightfield # NoObject)
            => heap[surface.heightfield].time + dt <= MaxTime
        /\ heap' = st.heap
        /\ caustics' = st.caustics
        /\ frameLog' = steps
        /\ raised' = NoOutcome
        /\ UNCHANGED <<wind, waveHeight, oceanDepth, period, tileSize, length,
                       drawSeaSurface, drawSeaFloor, enableCaustics,
                       photonIntensity, photonScale, surfaceShader,
                       groundShader, heightfield, surface, ground, nextId,
                   poolVars>>

\* The three switches are plain attributes the application assigns.
SetDrawSeaSurface(b) ==
    /\ drawSeaSurface' = b
    /\ raised' = NoOutcome
    /\ frameLog' = <<>>
    /\ UNCHANGED <<wind, waveHeight, oceanDepth, period, tileSize, length,
                   drawSeaFloor, enableCaustics, photonIntensity, photonScale,
                   surfaceShader, groundShader, heightfield, surface,
                   caustics, ground, heap, nextId,
                   poolVars>>

SetDrawSeaFloor(b) ==
    /\ drawSeaFloor' = b
    /\ raised' = NoOutcome
    /\ frameLog' = <<>>
    /\ UNCHANGED <<wind, waveHeight, oceanDepth, period, tileSize, length,
                   drawSeaSurface, enableCaustics, photonIntensity,
                   photonScale, surfaceShader, groundShader, heightfield,
                   surface, caustics, ground, heap, nextId,
                   poolVars>>

SetEnableCaustics(b) ==
    /\ enableCaustics' = b
    /\ raised' = NoOutcome
    /\ frameLog' = <<>>
    /\ UNCHANGED <<wind, waveHeight, oceanDepth, period, tileSize, length,
                   drawSeaSurface, drawSeaFloor, photonIntensity, photonScale,
                   surfaceShader, groundShader, heightfield, surface,
                   caustics, ground, heap, nextId,
                   poolVars>>

\* ------------------------------------------------------- Ocean setters
SetCausticPhotonIntensity(intensity) ==
    /\ photonIntensity' = intensity
    /\ caustics' = [caustics EXCEPT !.photonIntensity = intensity]
    /\ raised' = NoOutcome
    /\ frameLog' = <<>>
    /\ UNCHANGED <<wind, waveHeight, oceanDepth, period, tileSize, length,
                   drawSeaSurface, drawSeaFloor, enableCaustics, photonScale,
                   surfaceShader, groundShader, heightfield, surface, ground,
                   heap, nextId,
                   poolVars>>

\* Faulty variant of SetCausticPhotonScale: the value is written to the
\* engine's intensity.
SetCausticPhotonScaleWrongField(scale) ==
    /\ photonScale' = scale
    /\ caustics' = [caustics EXCEPT !.photonIntensity = scale]
    /\ raised' = NoOutcome
    /\ frameLog' = <<>>
    /\ UNCHANGED <<wind, waveHeight, oceanDepth, period, tileSize, length,
                   drawSeaSurface, drawSeaFloor, enableCaustics,
                   photonIntensity, surfaceShader, groundShader, heightfield,
                   surface, ground, heap, nextId,
                   poolVars>>

SetCausticPhotonScale(scale) ==
    /\ photonScale' = scale
    /\ caustics' = [caustics EXCEPT !.photonScale = scale]
    /\ raised' = NoOutcome
    /\ frameLog' = <<>>
    /\ UNCHANGED <<wind, waveHeight, oceanDepth, period, tileSize, length,
                   drawSeaSurface, drawSeaFloor, enableCaustics,
                   photonIntensity, surfaceShader, groundShader, heightfield,
                   surface, ground, heap, nextId,
                   poolVars>>

\* Faulty variants of SetDepth: the surface is not told, and the generator
\* is rebuilt as for a spectrum parameter.
SetDepthSkipsSurface(depth) ==
    /\ oceanDepth' = depth
    /\ caustics' = CausticsSetDepth(caustics, depth)
    /\ raised' = NoOutcome
    /\ frameLog' = <<>>
    /\ UNCHANGED <<wind, waveHeight, period, tileSize, length,
                   drawSeaSurface, drawSeaFloor, enableCaustics,
                   photonIntensity, photonScale, surfaceShader, groundShader,
                   heightfield, surface, ground, heap, nextId,
                   poolVars>>

SetDepthRebuilding(depth) ==
    /\ nextId <= MaxGens
    /\ heightfield # NoObject
    /\ oceanDepth' = depth
    /\ caustics' = CausticsSetDepth(caustics, depth)
    /\ heightfield' = nextId
    /\ surface' = SurfaceSetHeightfield(SurfaceSetDepth(surface, depth), nextId)
    /\ heap' = Collect(Allocate(heap, nextId,
                  Tessendorf(tileSize, waveHeight, wind, length, period)),
                  {nextId})
    /\ nextId' = nextId + 1
    /\ raised' = NoOutcome
    /\ frameLog' = <<>>
    /\ UNCHANGED <<wind, waveHeight, period, tileSize, length,
                   drawSeaSurface, drawSeaFloor, enableCaustics,
                   photonIntensity, photonScale, surfaceShader, groundShader,
                   ground, poolVars>>

SetDepth(depth) ==
    /\ oceanDepth' = depth
    /\ caustics' = CausticsSetDepth(caustics, depth)
    /\ surface' = SurfaceSetDepth(surface, depth)
    /\ raised' = NoOutcome
    /\ frameLog' = <<>>
    /\ UNCHANGED <<wind, waveHeight, period, tileSize, length,
                   drawSeaSurface, drawSeaFloor, enableCaustics,
                   photonIntensity, photonScale, surfaceShader, groundShader,
                   heightfield, ground, heap, nextId,
                   poolVars>>

ReloadShaders(src) ==
    /\ surfaceShader' = src
    /\ groundShader' = src
    /\ surface' = SurfaceSetShader(surface, src)
    /\ ground' = SurfaceSetShader(ground, src)
    /\ raised' = NoOutcome
    /\ frameLog' = <<>>
    /\ UNCHANGED <<wind, waveHeight, oceanDepth, period, tileSize, length,
                   drawSeaSurface, drawSeaFloor, enableCaustics,
                   photonIntensity, photonScale, heightfield, caustics, heap,
                   nextId,
                   poolVars>>

\* ---------------------------------------------- Ocean.resetHeightfield
\* Called with the wind and wave height the setter has just stored.  The
\* result is Ocean's reference, the surface, the heap, the next reference
\* and the exception that reaches the caller.
ResetHeightfield(w, wh) ==
    IF heightfield = NoObject
    THEN \* del self.heightfield: the attribute is already gone
         [heightfield |-> heightfield, surface |-> surface, heap |-> heap,
          nextId |-> nextId, raised |-> "AttributeError"]
    ELSE IF ~TessendorfValid(tileSize, w, length)
    THEN \* the attribute is deleted, the constructor raises
         [heightfield |-> NoObject, surface |-> surface,
          heap |-> Collect(heap, {surface.heightfield}),
          nextId |-> nextId, raised |-> "InvalidParameterError"]
    ELSE LET s == SurfaceSetHeightfield(surface, nextId)
             h == Allocate(heap, nextId,
                           Tessendorf(tileSize, wh, w, length, period))
         IN  [heightfield |-> nextId, surface |-> s,
              heap |-> Collect(h, {nextId, s.heightfield}),
              nextId |-> nextId + 1, raised |-> NoOutcome]

SetWind(w) ==
    /\ nextId <= MaxGens
    /\ wind' = w
    /\ LET r == ResetHeightfield(w, waveHeight)
       IN  /\ heightfield' = r.heightfield
           /\ surface' = r.surface
           /\ heap' = r.heap
           /\ nextId' = r.nextId
           /\ raised' = r.raised
    /\ frameLog' = <<>>
    /\ UNCHANGED <<waveHeight, oceanDepth, period, tileSize, length,
                   drawSeaSurface, drawSeaFloor, enableCaustics,
                   photonIntensity, photonScale, surfaceShader, groundShader,
                   caustics, ground,
                   poolVars>>

SetWaveHeight(wh) ==
    /\ nextId <= MaxGens
    /\ waveHeight' = wh
    /\ LET r == ResetHeightfield(wind, wh)
       IN  /\ heightfield' = r.heightfield
           /\ surface' = r.surface
           /\ heap' = r.heap
           /\ nextId' = r.nextId
           /\ raised' = r.raised
    /\ frameLog' = <<>>
    /\ UNCHANGED <<wind, oceanDepth, period, tileSize, length,
                   drawSeaSurface, drawSeaFloor, enableCaustics,
                   photonIntensity, photonScale, surfaceShader, groundShader,
                   caustics, ground,
                   poolVars>>

\* ------------------------------------------------------------------ Pool
\* Tap positions in surface space, some of them outside the grid.
Positions == {<<x, z>> : x \in -1..GridSize, z \in -1..GridSize}

Clamp(v, lo, hi) == IF v < lo THEN lo ELSE IF v > hi THEN hi ELSE v

\* The grid cell nearest a position.
NearestCell(pos) ==
    <<Clamp(pos[1], 0, GridSize - 1), Clamp(pos[2], 0, GridSize - 1)>>

\* Largest time step the wave-equation integration takes in one piece.
StableDt == 1

RECURSIVE Repeat(_, _)
Repeat(x, n) == IF n <= 0 THEN <<>> ELSE <<x>> \o Repeat(x, n - 1)

\* Ripples.tap(position): the impulse is queued.  id numbers the taps in
\* the order they were made.
RipplesTap(r, id, pos) ==
    [r EXCEPT !.queue = Append(@, [id |-> id, cell |-> NearestCell(pos)])]

\* Ripples advance(dt): the queued taps become impulses, the queue is
\* emptied, then the wave equation is integrated in stable sub-steps.
RipplesAdvance(r, dt) ==
    LET n == r.advances + 1
        hit == [i \in 1..Len(r.queue) |->
                   [id |-> r.queue[i].id, cell |-> r.queue[i].cell, at |-> n]]
    IN  [r EXCEPT !.queue = <<>>,
                  !.applied = @ \o hit,
                  !.advances = n]

\* The steps one advance(dt) takes, in order.
AdvanceSteps(dt) ==
    <<"applyTaps">> \o Repeat("integrate", (dt + StableDt - 1) \div StableDt)

PoolInit ==
    /\ poolDepth = DefaultDepth
    /\ poolSurface = [depth |-> DefaultDepth]
    /\ ripples = [queue |-> <<>>, applied |-> <<>>, advances |-> 0]
    /\ issued = <<>>
    /\ poolLog = <<>>
    /\ poolLastOp = Op("init", <<>>)

PoolSetDepth(depth) ==
    /\ poolSurface' = SurfaceSetDepth(poolSurface, poolDepth)
    /\ poolLastOp' = Op("setDepth", <<depth>>)
    /\ UNCHANGED <<poolDepth, ripples, issued, poolLog, oceanVars>>

\* Faulty variant of PoolTap: the tap is handed to the generator twice.
PoolTapTwice(tapPosition) ==
    /\ Len(issued) < MaxTaps
    /\ ripples' = RipplesTap(RipplesTap(ripples, Len(issued) + 1, tapPosition),
                             Len(issued) + 1, tapPosition)
    /\ issued' = Append(issued, [cell |-> NearestCell(tapPosition),
                                 after |-> ripples.advances])
    /\ poolLastOp' = Op("tap", <<tapPosition>>)
    /\ UNCHANGED <<poolDepth, poolSurface, poolLog, oceanVars>>

PoolTap(tapPosition) ==
    /\ Len(issued) < MaxTaps
    /\ ripples' = RipplesTap(ripples, Len(issued) + 1, tapPosition)
    /\ issued' = Append(issued, [cell |-> NearestCell(tapPosition),
                                 after |-> ripples.advances])
    /\ poolLastOp' = Op("tap", <<tapPosition>>)
    /\ UNCHANGED <<poolDepth, poolSurface, poolLog, oceanVars>>

PoolDraw(dt) ==
    /\ ripples.advances < MaxAdvances
    /\ ripples' = RipplesAdvance(ripples, dt)
    /\ poolLog' = AdvanceSteps(dt)
    /\ poolLastOp' = Op("draw", <<dt>>)
    /\ UNCHANGED <<poolDepth, poolSurface, issued, oceanVars>>

PoolNext ==
    \/ \E d \in Depths : PoolSetDepth(d)
    \/ \E p \in Positions : PoolTap(p)
    \/ \E dt \in Dts : PoolDraw(dt)

\* ---------------------------------------------------------- specifications
Init == OceanInit /\ PoolInit

Next ==
    \/ \E dt \in Dts : Draw(dt)
    \/ \E b \in BOOLEAN : SetDrawSeaSurface(b)
    \/ \E b \in BOOLEAN : SetDrawSeaFloor(b)
    \/ \E b \in BOOLEAN : SetEnableCaustics(b)
    \/ \E i \in PhotonValues : SetCausticPhotonIntensity(i)
    \/ \E s \in PhotonValues : SetCausticPhotonScale(s)
    \/ \E d \in Depths : SetDepth(d)
    \/ \E src \in ShaderSources : ReloadShaders(src)
    \/ \E w \in Winds : SetWind(w)
    \/ \E wh \in WaveHeights : SetWaveHeight(wh)

Spec == Init /\ [][Next]_vars

PoolSpec == Init /\ [][PoolNext]_vars


\* ------------------------------------------------------------ properties
\* The construction parameters of a generator, and the values Ocean holds
\* for them now.
GenParams(g) ==
    [tileSize |-> g.tileSize, waveHeight |-> g.waveHeight, wind |-> g.wind,
     length |-> g.length, period |-> g.period]

OceanParams ==
    [tileSize |-> tileSize, waveHeight |-> waveHeight, wind |-> wind,
     length |-> length, period |-> period]

GeneratorInStep ==
    /\ heightfield # NoObject
    /\ heightfield \in DOMAIN heap
    /\ GenParams(heap[heightfield]) = OceanParams
    /\ surface.heightfield = heightfield

FullFrame == <<"surface.draw", "caustics.update", "ground.draw">>

InLog(log, call) == \E i \in 1..Len(log) : log[i] = call

Before(log, a, b) ==
    \A i, j \in 1..Len(log) : (log[i] = a /\ log[j] = b) => i < j

\* C1: after any sequence of Ocean operations the generator Ocean holds was
\* built from Ocean's current tileSize, waveHeight, wind, length and period,
\* and the surface uses that same generator.
C1_GeneratorMatchesParameters == GeneratorInStep

\* C2: draw, setDepth, setCausticPhotonIntensity, setCausticPhotonScale and
\* reloadShaders keep Ocean's generator (same instance, same construction
\* parameters) and keep wind, waveHeight, tileSize, length and period; a step
\* that changes the reference is a setWind or a setWaveHeight.
C2_Preserving ==
    \/ \E dt \in Dts : Draw(dt)
    \/ \E d \in Depths : SetDepth(d)
    \/ \E i \in PhotonValues : SetCausticPhotonIntensity(i)
    \/ \E sc \in PhotonValues : SetCausticPhotonScale(sc)
    \/ \E src \in ShaderSources : ReloadShaders(src)

C2_Kept ==
    /\ heightfield' = heightfield
    /\ surface'.heightfield = surface.heightfield
    /\ heightfield # NoObject =>
           /\ heightfield \in DOMAIN heap'
           /\ GenParams(heap'[heightfield]) = GenParams(heap[heightfield])
    /\ OceanParams' = OceanParams

C2_OnlyInvalidationRebuilds ==
    [][/\ C2_Preserving => C2_Kept
       /\ heightfield' # heightfield =>
              \/ \E w \in Winds : SetWind(w)
              \/ \E wh \in WaveHeights : SetWaveHeight(wh)]_vars

C2_Witness ==
    /\ heightfield = 1
    /\ heap[1].time > 0
    /\ frameLog # <<>>
    /\ oceanDepth # DefaultDepth
    /\ photonScale # DefaultPhotonScale
    /\ photonIntensity # DefaultPhotonIntensity
    /\ surfaceShader = "edited"
    /\ surface.shader = "edited"

\* C3: within one draw the surface is drawn first, then the caustics are
\* updated from that surface as advanced in this call, then the sea floor is
\* drawn; the update never precedes the surface draw and never follows the
\* sea-floor draw.
C3_FrameOrder ==
    [][\A dt \in Dts : Draw(dt) =>
          /\ Before(frameLog', "surface.draw", "caustics.update")
          /\ Before(frameLog', "caustics.update", "ground.draw")
          /\ Before(frameLog', "surface.draw", "ground.draw")
          /\ (InLog(frameLog', "surface.draw")
                /\ InLog(frameLog', "caustics.update")
                /\ surface.heightfield # NoObject) =>
                 /\ heap'[surface.heightfield].time
                        = heap[surface.heightfield].time + dt
                 /\ caustics'.texture = <<HeightGrid(heap'[surface.heightfield])>>]_vars

C3_Witness ==
    /\ frameLog = FullFrame
    /\ heap[surface.heightfield].time > 0
    /\ caustics.texture # BlankTexture

\* C4 as stated: whatever the three switches are, a draw that draws the sea
\* floor has updated the caustics before it, from a surface drawn before
\* that, in the same call.
C4_FloorAlwaysFresh ==
    InLog(frameLog, "ground.draw") => frameLog = FullFrame

\* C4 as amended: a draw that draws the sea floor is preceded in the same
\* call by a caustics update from the surface advanced in that call exactly
\* when drawSeaSurface and enableCaustics are both set; with enableCaustics
\* off the floor is drawn over the texture of an earlier frame, and with
\* drawSeaSurface off the update reads a surface this call did not advance.
C4_FloorFreshWhenEnabled ==
    [][\A dt \in Dts : (Draw(dt) /\ drawSeaFloor) =>
          /\ InLog(frameLog', "ground.draw")
          /\ (drawSeaSurface /\ enableCaustics) =>
                 /\ frameLog' = FullFrame
                 /\ caustics'.texture = <<HeightGrid(heap'[surface.heightfield])>>
                 /\ heap'[surface.heightfield].time
                        = heap[surface.heightfield].time + dt
          /\ ~enableCaustics =>
                 /\ ~InLog(frameLog', "caustics.update")
                 /\ caustics'.texture = caustics.texture
          /\ (~drawSeaSurface /\ enableCaustics) =>
                 /\ frameLog' = <<"caustics.update", "ground.draw">>
                 /\ heap' = heap
                 /\ caustics'.texture = <<HeightGrid(heap[surface.heightfield])>>]_vars

C4_Witness ==
    /\ drawSeaSurface /\ drawSeaFloor /\ enableCaustics
    /\ frameLog = FullFrame
    /\ heap[surface.heightfield].time = MaxTime
    /\ caustics.texture = <<HeightGrid(heap[surface.heightfield])>>

\* C5: setWind with the current wind, or setWaveHeight with the current wave
\* height, leaves the height grid of the current frame time as it was: the
\* rebuilt generator produces the grid the replaced one produced.
C5_NoOpReconfiguration ==
    [][/\ \A w \in Winds :
              (SetWind(w) /\ w = wind /\ raised' = NoOutcome) =>
                  HeightGrid(heap'[heightfield'])
                      = HeightGrid(heap[heightfield])
       /\ \A wh \in WaveHeights :
              (SetWaveHeight(wh) /\ wh = waveHeight /\ raised' = NoOutcome) =>
                  HeightGrid(heap'[heightfield'])
                      = HeightGrid(heap[heightfield])]_vars

\* C6: the depth of the caustics engine and the depth of the water surface
\* both equal Ocean.oceanDepth in every reachable state, and after
\* setDepth(d) all three equal d.
C6_DepthConsistent ==
    /\ [](caustics.depth = oceanDepth /\ surface.depth = oceanDepth)
    /\ [][\A d \in Depths : SetDepth(d) =>
             /\ oceanDepth' = d
             /\ caustics'.depth = d
             /\ surface'.depth = d]_vars

C6_Witness ==
    /\ oceanDepth # DefaultDepth
    /\ caustics.depth = oceanDepth
    /\ surface.depth = oceanDepth

\* C9: when setWind or setWaveHeight fails because the new generator is
\* rejected, Ocean still holds a generator, the surface uses that instance,
\* and Ocean's wind and waveHeight equal its construction parameters.
C9_FailedReconfigurationKeepsOcean ==
    raised = "InvalidParameterError" =>
        /\ heightfield # NoObject
        /\ surface.heightfield = heightfield
        /\ heap[heightfield].wind = wind
        /\ heap[heightfield].waveHeight = waveHeight

\* C10: the caustics engine's photonIntensity and photonScale equal Ocean's
\* in every reachable state; setCausticPhotonIntensity changes only the
\* intensity pair and setCausticPhotonScale only the scale pair.
C10_PhotonConsistent ==
    /\ [](/\ caustics.photonIntensity = photonIntensity
          /\ caustics.photonScale = photonScale)
    /\ [][/\ \A i \in PhotonValues : SetCausticPhotonIntensity(i) =>
                 /\ photonIntensity' = i
                 /\ caustics' = [caustics EXCEPT !.photonIntensity = i]
                 /\ photonScale' = photonScale
                 /\ oceanDepth' = oceanDepth /\ surface' = surface
                 /\ heightfield' = heightfield /\ heap' = heap
          /\ \A sc \in PhotonValues : SetCausticPhotonScale(sc) =>
                 /\ photonScale' = sc
                 /\ caustics' = [caustics EXCEPT !.photonScale = sc]
                 /\ photonIntensity' = photonIntensity
                 /\ oceanDepth' = oceanDepth /\ surface' = surface
                 /\ heightfield' = heightfield /\ heap' = heap]_vars

C10_Witness ==
    /\ photonIntensity = DefaultPhotonScale
    /\ photonScale = DefaultPhotonIntensity
    /\ caustics.photonIntensity = DefaultPhotonScale
    /\ caustics.photonScale = DefaultPhotonIntensity

\* ------------------------------------------------------- Pool properties
Count(seq, id) == Cardinality({i \in 1..Len(seq) : seq[i].id = id})

\* C7: every tap made between two advances is queued and applied exactly
\* once, at the start of the next advance and before its integration; none
\* is lost or applied twice, and the queue is empty after the advance.
C7_TapsAppliedOnce ==
    /\ \A id \in 1..Len(issued) :
           Count(ripples.queue, id) + Count(ripples.applied, id) = 1
    /\ \A i \in 1..Len(ripples.queue) :
           /\ ripples.queue[i].id \in 1..Len(issued)
           /\ issued[ripples.queue[i].id].after = ripples.advances
           /\ issued[ripples.queue[i].id].cell = ripples.queue[i].cell
    /\ \A i \in 1..Len(ripples.applied) :
           /\ ripples.applied[i].id \in 1..Len(issued)
           /\ ripples.applied[i].at = issued[ripples.applied[i].id].after + 1
           /\ ripples.applied[i].cell = issued[ripples.applied[i].id].cell
    /\ poolLastOp.op = "draw" => ripples.queue = <<>>
    /\ poolLog # <<>> =>
           /\ poolLog[1] = "applyTaps"
           /\ \A i \in 2..Len(poolLog) : poolLog[i] = "integrate"
           /\ Len(poolLog) >= 2

C7_Witness ==
    /\ poolLastOp.op = "draw"
    /\ Len(issued) = MaxTaps
    /\ Len(ripples.applied) = MaxTaps
    /\ ripples.applied[MaxTaps].at = ripples.applied[MaxTaps - 1].at
    /\ ripples.queue = <<>>

\* C8: after Pool.setDepth(depth), Pool.depth equals depth and the depth
\* handed to the pool surface's setDepth equals depth.
C8_PoolSetDepthTakesEffect ==
    poolLastOp.op = "setDepth" =>
        /\ poolDepth = poolLastOp.arg[1]
        /\ poolSurface.depth = poolLastOp.arg[1]

====
